---- MODULE Spec2Model ----
(***************************************************************************)
(* Buoy drift forecasting engine (buoy_tracking).                          *)
(*                                                                         *)
(* Several state machines share this module:                               *)
(*   Spec        advanced_forecast: concurrent calls over the directory   *)
(*               of cached velocity-field files (forecast_position.py)    *)
(*   SpecSolo    advanced_forecast, one caller, richer arguments           *)
(*   SpecSimple  simple_forecast, statement by statement                   *)
(*   SpecParse   parse_data, line by line (data_fetch.py)                  *)
(*   SpecFetch   fetch_by_buoyid with fetch_data_http, fetch_data_pgapi,   *)
(*               fetch_data_ftp and parse_data (data_fetch.py)             *)
(*   SpecGeo     bearing_diff as a function of its arguments               *)
(*   SpecRk4     the integration loop of rk4 (forecast_position.py)        *)
(*   SpecGrid    local_grid_bounds_check as a function of its arguments    *)
(*   SpecApp     update_record of the web application (app.py)             *)
(*                                                                         *)
(* All datetimes are whole minutes since an arbitrary midnight.            *)
(***************************************************************************)
EXTENDS Integers, Sequences, FiniteSets, TLC

VARIABLES
    files,      \* names of the *.nc files present in TOPAZ_PATH
    pc,         \* per caller: position inside advanced_forecast
    args,       \* per caller: arguments of the running frame
    loc,        \* per caller: local variables of the running frame
    hist,       \* per caller: what the top-level call has done so far
    result,     \* per caller: value returned (or exception raised)
    sf,         \* simple_forecast: its frame
    pd,         \* parse_data: its frame
    fb,         \* fetch_by_buoyid and the fetch_data_* call it makes: frame
    gt,         \* geo_tools: the function applied and its value
    rk,         \* rk4: its frame
    lg,         \* local_grid_bounds_check: its arguments and its value
    ap          \* app.py: the tables of the database and update_record

vars == <<files, pc, args, loc, hist, result, sf, pd, fb, gt, rk, lg, ap>>

(***************************************************************************)
(* The worker threads that call advanced_forecast in parallel.             *)
(***************************************************************************)
Procs == {"w1", "w2"}

(***************************************************************************)
(* Time.                                                                   *)
(***************************************************************************)
Hour == 60

\* datetime.strftime(d, "%Y-%m-%d-%H") followed, on a later scan, by
\* datetime.strptime(..., "%Y-%m-%d-%H"): minutes and seconds are dropped.
TopazNameTime(d) == (d \div Hour) * Hour

(***************************************************************************)
(* advanced_forecast: inputs.                                              *)
(***************************************************************************)
\* buoy_position = (datetime, lat, lon): the buoy's last report.
BuoyPositions == { [t |-> 2880, lat |-> 75, lon |-> -150] }

TargetTimes == {3000, 3240}

\* return_topaz_stats
StatsFlags == {FALSE}

\* A file name "<start>_<end>_velocityfield.nc", as the two decoded times.
NoFile == [s |-> -1, e |-> -1]

\* Files left in the directory by earlier calls.
InitialFiles ==
    { [s |-> 1440, e |-> 3120],
      [s |-> 1440, e |-> 4020] }

\* check_existing_topaz
check_existing_topaz(topaz_start, topaz_end, date_start, date_end) ==
    IF topaz_start <= date_start /\ topaz_end >= date_end THEN TRUE ELSE FALSE

\* fetch_topaz_forecast: the window it requests and returns
FetchDateEnd(target_time) == target_time + 4 * Hour
FetchDateMin(buoy_position) == buoy_position.t - 24 * Hour
FetchDateMax(target_time) == FetchDateEnd(target_time) + 24 * Hour

\* fetch_topaz_forecast: output_filename
FetchOutputName(buoy_position, target_time) ==
    [s |-> TopazNameTime(FetchDateMin(buoy_position)),
     e |-> TopazNameTime(FetchDateMax(target_time))]

\* Files some caller's motuclient run is writing right now.
BeingWritten == { loc[q].fname : q \in {r \in Procs : pc[r] = "writing"} }

InFlight == { q \in Procs : pc[q] \in {"fetching", "writing"} }

NoResult == [kind |-> "none", shape |-> "none", drift |-> "none",
             pts |-> <<>>, update |-> FALSE, start |-> -1, end |-> -1]

IdleArgs == [bp |-> [t |-> 0, lat |-> 0, lon |-> 0], target |-> 0,
             retry |-> TRUE, force |-> FALSE, stats |-> FALSE]

IdleLoc == [todo |-> {}, kept |-> {}, denied |-> FALSE,
            valid |-> NoFile, update |-> FALSE,
            fname |-> NoFile, start |-> -1, end |-> -1]

IdleHist == [stats |-> FALSE, acq |-> 0, depth |-> 0, fail1 |-> "none",
             reused1 |-> FALSE, loadedPartial |-> FALSE, lastrun |-> "none"]

SfIdle == [pc |-> "off"]
PdIdle == [pc |-> "off"]

FbIdle == [pc |-> "off"]

GtIdle == [pc |-> "off"]

RkIdle == [pc |-> "off"]

LgIdle == [pc |-> "off"]

ApIdle == [pc |-> "off"]

Init ==
    /\ files \in SUBSET InitialFiles
    /\ pc = [p \in Procs |-> "idle"]
    /\ args = [p \in Procs |-> IdleArgs]
    /\ loc = [p \in Procs |-> IdleLoc]
    /\ hist = [p \in Procs |-> IdleHist]
    /\ result = [p \in Procs |-> NoResult]
    /\ sf = SfIdle
    /\ pd = PdIdle
    /\ fb = FbIdle
    /\ gt = GtIdle
    /\ rk = RkIdle
    /\ lg = LgIdle
    /\ ap = ApIdle

(***************************************************************************)
(* advanced_forecast, lines 96-165.                                        *)
(***************************************************************************)

\* A caller enters advanced_forecast (retry=True, force_update=False) with
\* arguments out of the given sets and globs the directory (line 104).
CallWith(p, positions, targets, flags) ==
    /\ pc[p] = "idle"
    /\ \E bp \in positions, tt \in targets, st \in flags :
         /\ args' = [args EXCEPT ![p] = [bp |-> bp, target |-> tt, retry |-> TRUE,
                                         force |-> FALSE, stats |-> st]]
         /\ hist' = [hist EXCEPT ![p] = [IdleHist EXCEPT !.stats = st]]
    /\ loc' = [loc EXCEPT ![p] = [IdleLoc EXCEPT !.todo = files, !.kept = files]]
    /\ pc' = [pc EXCEPT ![p] = "scan"]
    /\ UNCHANGED <<files, result, sf, pd, fb, gt, rk, lg, ap>>

Call(p) == CallWith(p, BuoyPositions, TargetTimes, StatsFlags)

\* One iteration of the scan loop (lines 107-130) on any file of the glob
\* result not yet visited; os.remove may fail with PermissionError, and
\* FileNotFoundError when another caller removed the file first.  kept is
\* the part of the glob result this scan has not seen removed, denied
\* tells that one of its removals failed with PermissionError; both are
\* dropped after the loop, which is the last use of topaz_files.
Scan(p) ==
    /\ pc[p] = "scan"
    /\ loc[p].todo # {}
    /\ \E f \in loc[p].todo, removable \in BOOLEAN :
         LET existing_valid ==
                 check_existing_topaz(f.s, f.e, args[p].bp.t, args[p].target)
         IN  IF ~existing_valid \/ args[p].force
             THEN /\ files' = IF removable THEN files \ {f} ELSE files
                  /\ loc' = [loc EXCEPT
                              ![p].todo = @ \ {f},
                              ![p].kept = IF removable \/ f \notin files
                                          THEN @ \ {f} ELSE @,
                              ![p].denied = @ \/ (~removable /\ f \in files)]
             ELSE /\ files' = files
                  /\ loc' = [loc EXCEPT ![p].todo = @ \ {f},
                                        ![p].valid = f]
    /\ UNCHANGED <<pc, args, hist, result, sf, pd, fb, gt, rk, lg, ap>>

\* Lines 137-140: a valid file was found, recall it.
Reuse(p) ==
    /\ pc[p] = "scan"
    /\ loc[p].todo = {}
    /\ loc[p].valid # NoFile
    /\ loc' = [loc EXCEPT ![p].fname = loc[p].valid,
                          ![p].start = loc[p].valid.s,
                          ![p].end = loc[p].valid.e,
                          ![p].kept = {}, ![p].denied = FALSE]
    /\ hist' = [hist EXCEPT ![p].reused1 = IF hist[p].depth = 0 THEN TRUE ELSE @]
    /\ pc' = [pc EXCEPT ![p] = "load"]
    /\ UNCHANGED <<files, args, result, sf, pd, fb, gt, rk, lg, ap>>

\* Lines 134-135: no valid file; fetch_topaz_forecast starts motuclient
\* (os.system, line 407) and blocks until it exits.
FetchStart(p) ==
    /\ pc[p] = "scan"
    /\ loc[p].todo = {}
    /\ loc[p].valid = NoFile
    /\ loc' = [loc EXCEPT ![p].fname = FetchOutputName(args[p].bp, args[p].target),
                          ![p].kept = {}, ![p].denied = FALSE]
    /\ hist' = [hist EXCEPT ![p].acq = @ + 1]
    /\ pc' = [pc EXCEPT ![p] = "fetching"]
    /\ UNCHANGED <<files, args, result, sf, pd, fb, gt, rk, lg, ap>>

\* The download begins to write its output file.
FetchWrite(p) ==
    /\ pc[p] = "fetching"
    /\ files' = files \cup {loc[p].fname}
    /\ pc' = [pc EXCEPT ![p] = "writing"]
    /\ UNCHANGED <<args, loc, hist, result, sf, pd, fb, gt, rk, lg, ap>>

\* motuclient exits; its exit status is ignored (line 407).  A download that
\* fails before writing leaves no file.  Lines 408, 136.
FetchEnd(p) ==
    /\ pc[p] \in {"fetching", "writing"}
    /\ \E ok \in BOOLEAN :
         /\ (pc[p] = "writing") => ok
         /\ files' = IF ok THEN files \cup {loc[p].fname} ELSE files
    /\ loc' = [loc EXCEPT ![p].update = TRUE,
                          ![p].start = FetchDateMin(args[p].bp),
                          ![p].end = FetchDateMax(args[p].target)]
    /\ pc' = [pc EXCEPT ![p] = "load"]
    /\ UNCHANGED <<args, hist, result, sf, pd, fb, gt, rk, lg, ap>>

Raised(kind) == [NoResult EXCEPT !.kind = "raised", !.shape = kind]

\* load_topaz_vars (line 143).  A missing file raises out of the call; a
\* file another caller is still writing is read half-written, which either
\* raises or yields truncated arrays.
Load(p) ==
    /\ pc[p] = "load"
    /\ IF loc[p].fname \notin files
       THEN /\ result' = [result EXCEPT ![p] = Raised("OSError")]
            /\ pc' = [pc EXCEPT ![p] = "done"]
            /\ UNCHANGED hist
       ELSE IF loc[p].fname \in BeingWritten
       THEN \E readable \in BOOLEAN :
              /\ hist' = [hist EXCEPT ![p].loadedPartial = TRUE]
              /\ IF readable
                 THEN /\ pc' = [pc EXCEPT ![p] = "run"]
                      /\ UNCHANGED result
                 ELSE /\ result' = [result EXCEPT ![p] = Raised("OSError")]
                      /\ pc' = [pc EXCEPT ![p] = "done"]
       ELSE /\ pc' = [pc EXCEPT ![p] = "run"]
            /\ UNCHANGED <<hist, result>>
    /\ UNCHANGED <<files, args, loc, sf, pd, fb, gt, rk, lg, ap>>

RunOutcomes == {"ok", "masked", "valueerror"}

\* Lines 161-165: the value the running frame returns.
ReturnValue(p, drift, pts) ==
    [kind |-> "returned",
     shape |-> IF args[p].stats THEN "tuple4" ELSE "list",
     drift |-> drift, pts |-> pts,
     update |-> loc[p].update, start |-> loc[p].start, end |-> loc[p].end]

MaskedReturnEmpty(buoy_position) == <<>>

\* Line 208: what _advanced_forecast returns for a masked start cell.
MaskedReturn(buoy_position) == <<buoy_position>>

RetryGuardAnyWindow(p) == args[p].retry

\* Line 151: the condition under which a ValueError is retried.
RetryGuard(p) == args[p].retry /\ ~loc[p].update

\* Lines 145-165 with _advanced_forecast (lines 168-266).  outcome is what
\* the loaded arrays give for this buoy position:
\*   "ok"          the integration succeeds
\*   "masked"      u[t0, ll_idx] is masked: [buoy_position] is returned
\*                 normally (line 208)
\*   "valueerror"  the interpolators raise ValueError (out of bounds, or a
\*                 time axis shorter than grid_t)
Run(p) ==
    /\ pc[p] = "run"
    /\ \E outcome \in RunOutcomes :
         LET h1 == [hist[p] EXCEPT
                      !.fail1 = IF hist[p].depth = 0 /\ outcome # "ok"
                                THEN outcome ELSE @,
                      !.lastrun = outcome]
         IN
         CASE outcome = "ok" ->
                /\ result' = [result EXCEPT ![p] = ReturnValue(p, "advected", <<>>)]
                /\ hist' = [hist EXCEPT ![p] = h1]
                /\ pc' = [pc EXCEPT ![p] = "done"]
                /\ UNCHANGED <<args, loc>>
           [] outcome = "masked" ->
                /\ result' = [result EXCEPT
                                ![p] = ReturnValue(p, "last_known",
                                                   MaskedReturn(args[p].bp))]
                /\ hist' = [hist EXCEPT ![p] = h1]
                /\ pc' = [pc EXCEPT ![p] = "done"]
                /\ UNCHANGED <<args, loc>>
           [] outcome = "valueerror" ->
                IF RetryGuard(p)
                THEN \* line 153: the recursive call, which globs again
                     /\ args' = [args EXCEPT ![p].retry = FALSE,
                                             ![p].force = TRUE,
                                             ![p].stats = FALSE]
                     /\ loc' = [loc EXCEPT ![p] = [IdleLoc EXCEPT !.todo = files, !.kept = files]]
                     /\ hist' = [hist EXCEPT ![p] = [h1 EXCEPT !.depth = @ + 1]]
                     /\ pc' = [pc EXCEPT ![p] = "scan"]
                     /\ UNCHANGED result
                ELSE \* lines 156-157
                     /\ result' = [result EXCEPT
                                     ![p] = ReturnValue(p, "last_known", <<args[p].bp>>)]
                     /\ hist' = [hist EXCEPT ![p] = h1]
                     /\ pc' = [pc EXCEPT ![p] = "done"]
                     /\ UNCHANGED <<args, loc>>
    /\ UNCHANGED <<files, sf, pd, fb, gt, rk, lg, ap>>

\* The caller has its answer and may call again later.
Finish(p) ==
    /\ pc[p] = "done"
    /\ pc' = [pc EXCEPT ![p] = "idle"]
    /\ args' = [args EXCEPT ![p] = IdleArgs]
    /\ loc' = [loc EXCEPT ![p] = IdleLoc]
    /\ hist' = [hist EXCEPT ![p] = IdleHist]
    /\ result' = [result EXCEPT ![p] = NoResult]
    /\ UNCHANGED <<files, sf, pd, fb, gt, rk, lg, ap>>

Next ==
    \E p \in Procs :
        \/ Call(p)
        \/ Scan(p)
        \/ Reuse(p)
        \/ FetchStart(p)
        \/ FetchWrite(p)
        \/ FetchEnd(p)
        \/ Load(p)
        \/ Run(p)
        \/ Finish(p)

Spec == Init /\ [][Next]_vars

(***************************************************************************)
(* advanced_forecast called by one caller at a time, with observation and  *)
(* target times that need not be on a whole hour, and with or without      *)
(* return_topaz_stats.                                                     *)
(***************************************************************************)
Solo == "w1"

SoloPositions ==
    { [t |-> 2880, lat |-> 75, lon |-> -150],
      [t |-> 2890, lat |-> 75, lon |-> -150] }

SoloTargets == {3000, 3010, 3240}

CallSolo == CallWith(Solo, SoloPositions, SoloTargets, BOOLEAN)

NextSolo ==
    \/ CallSolo
    \/ Scan(Solo)
    \/ Reuse(Solo)
    \/ FetchStart(Solo)
    \/ FetchWrite(Solo)
    \/ FetchEnd(Solo)
    \/ Load(Solo)
    \/ Run(Solo)
    \/ Finish(Solo)

SpecSolo == Init /\ [][NextSolo]_vars

\* Every step of the caller that can be taken is taken at some time: the
\* download, the load and the forecast return.
SpecSoloFair == SpecSolo /\ WF_vars(NextSolo)

(***************************************************************************)
(* geo_tools, restricted to points of one meridian: a position is a        *)
(* latitude in integer distance units along the meridian (the longitude    *)
(* is carried unchanged), so the haversine distance is the difference of   *)
(* the latitudes and the initial bearing is 0 (north) or 180 (south).      *)
(* Floating-point values are [k, v]: finite v, or IEEE inf / nan.          *)
(***************************************************************************)
Fin(n) == [k |-> "fin", v |-> n]
Inf == [k |-> "inf", v |-> 0]
NaN == [k |-> "nan", v |-> 0]

\* A local name no assignment has bound yet.
Unbound == [k |-> "unbound", v |-> 0]

Abs(n) == IF n < 0 THEN -n ELSE n

\* int(x / y) on Python numbers: rounds toward zero
TruncDiv(x, y) == IF x >= 0 THEN x \div y ELSE -((-x) \div y)

\* numpy float64 division x / y: a zero divisor gives inf or nan with a
\* RuntimeWarning, no exception
FDiv(x, y) ==
    IF y # 0 THEN Fin(x \div y) ELSE IF x = 0 THEN NaN ELSE Inf

\* calc_distance
calc_distance(a, b) == Abs(a.lat - b.lat)

\* calc_bearing (arctan2(0, 0) = 0 for coincident points)
calc_bearing(pos, target) == IF target.lat >= pos.lat THEN 0 ELSE 180

\* bearing_diff
bearing_diff(b1, b2) ==
    LET r == (b1 - b2) % 360
    IN  IF r >= 180 THEN r - 360 ELSE r

\* update_position: math.cos raises ValueError (math domain error) on an
\* infinite argument and passes nan through
update_position(lat, bearing, distance) ==
    IF distance.k = "inf" \/ bearing.k = "inf"
    THEN [ok |-> FALSE, pos |-> NaN]
    ELSE IF distance.k = "nan" \/ bearing.k = "nan" \/ lat.k = "nan"
    THEN [ok |-> TRUE, pos |-> NaN]
    ELSE IF bearing.v % 360 = 0
    THEN [ok |-> TRUE, pos |-> Fin(lat.v + distance.v)]
    ELSE IF bearing.v % 360 = 180
    THEN [ok |-> TRUE, pos |-> Fin(lat.v - distance.v)]
    ELSE [ok |-> TRUE, pos |-> [k |-> "off_meridian", v |-> 0]]

(***************************************************************************)
(* simple_forecast, lines 21-93.                                           *)
(***************************************************************************)
MaxTrackLen == 4

\* timedelta(minutes=15), line 63
StepMinutes == 15

\* forecast steps per recorded sample, lines 67 and 87-88
StepsPerSample == 4

TrackStart == [t |-> 6000, lat |-> 0, lon |-> -150]

\* Minutes between consecutive reports (0: a repeated timestamp).
TrackGaps == {0, 15, 30}

\* Northward displacement between consecutive reports.
TrackMoves == {0, 720}

RECURSIVE TracksOfLen(_)
TracksOfLen(n) ==
    IF n = 0 THEN {<<>>}
    ELSE IF n = 1 THEN {<<TrackStart>>}
    ELSE { Append(tr, [t |-> tr[n-1].t + g, lat |-> tr[n-1].lat + m,
                       lon |-> tr[n-1].lon]) :
             tr \in TracksOfLen(n - 1), g \in TrackGaps, m \in TrackMoves }

Tracks == UNION { TracksOfLen(n) : n \in 0..MaxTrackLen }

\* target_time minus the last observation time, in minutes.
LeadTimes == {-20, 0, 50, 60, 75, 130}

\* The (0, 0, 0) entries forecast_drift is initialised with, line 67.
Placeholder == [t |-> 0, lat |-> Fin(0), lon |-> 0]

SfFrame(track, target, full) ==
    [pc |-> "enter", track |-> track, target |-> target, full |-> full,
     i |-> 0, motion |-> <<>>, bearing_curr |-> Unbound, divzero |-> FALSE,
     num_steps |-> 0, drift |-> <<>>, d |-> NaN, w |-> NaN,
     pos |-> NaN, bearing |-> NaN, time |-> 0, k |-> 0,
     kind |-> "none", err |-> "none", val |-> <<>>]

InitSimple ==
    /\ files = {}
    /\ pc = [p \in Procs |-> "idle"]
    /\ args = [p \in Procs |-> IdleArgs]
    /\ loc = [p \in Procs |-> IdleLoc]
    /\ hist = [p \in Procs |-> IdleHist]
    /\ result = [p \in Procs |-> NoResult]
    /\ pd = PdIdle
    /\ fb = FbIdle
    /\ gt = GtIdle
    /\ rk = RkIdle
    /\ lg = LgIdle
    /\ ap = ApIdle
    /\ \E tr \in Tracks, l \in LeadTimes, fl \in BOOLEAN :
         sf = SfFrame(tr, (IF Len(tr) = 0 THEN 6000 ELSE tr[Len(tr)].t) + l, fl)

SfRaise(e) == [sf EXCEPT !.pc = "done", !.kind = "raised", !.err = e]

\* Line 34: np.zeros((len(drift_track)-2, 2)) raises ValueError on a
\* negative dimension.
SfEnter ==
    /\ sf.pc = "enter"
    /\ sf' = IF Len(sf.track) - 2 < 0
             THEN SfRaise("ValueError")
             ELSE [sf EXCEPT !.pc = "motion", !.i = 1]
    /\ UNCHANGED <<files, pc, args, loc, hist, result, pd, fb, gt, rk, lg, ap>>

\* np.average over one column of motion_record (nan for no rows)
Average(samples) ==
    LET RECURSIVE Sum(_)
        Sum(j) == IF j = 0 THEN 0 ELSE samples[j].v + Sum(j - 1)
        n == Len(samples)
    IN  IF n = 0 \/ \E j \in 1..n : samples[j].k = "nan" THEN NaN
        ELSE IF \E j \in 1..n : samples[j].k = "inf" THEN Inf
        ELSE Fin(Sum(n) \div n)

\* Lines 44-46.  Speeds are held in distance units per forecast step, the
\* product with step_length of line 70 taken here.
MotionSpeed(pos_curr, pos_next) ==
    FDiv(calc_distance(pos_curr, pos_next) * StepMinutes, pos_next.t - pos_curr.t)

\* Lines 49-53, in degrees per forecast step (line 71).
MotionAngular(pos_last, pos_curr, pos_next) ==
    FDiv(bearing_diff(calc_bearing(pos_curr, pos_next),
                      calc_bearing(pos_last, pos_curr)) * StepMinutes,
         pos_next.t - pos_last.t)

\* One iteration of the loop of lines 36-56, or its exit.
SfMotion ==
    /\ sf.pc = "motion"
    /\ sf' =
         IF sf.i <= Len(sf.track) - 2
         THEN LET pos_next == sf.track[sf.i + 2]
                  pos_curr == sf.track[sf.i + 1]
                  pos_last == sf.track[sf.i]
              IN  [sf EXCEPT
                     !.motion = Append(@, [speed |-> MotionSpeed(pos_curr, pos_next),
                                           angular |-> MotionAngular(pos_last, pos_curr,
                                                                     pos_next)]),
                     !.bearing_curr = Fin(calc_bearing(pos_curr, pos_next)),
                     !.divzero = @ \/ pos_next.t = pos_curr.t \/ pos_next.t = pos_last.t,
                     !.i = @ + 1]
         ELSE [sf EXCEPT !.pc = "setup"]
    /\ UNCHANGED <<files, pc, args, loc, hist, result, pd, fb, gt, rk, lg, ap>>

\* Lines 58-80.  bearing_curr is unbound when the loop body never ran.
SfSetup ==
    /\ sf.pc = "setup"
    /\ sf' =
         LET n == Len(sf.track)
             lead_time == sf.target - sf.track[n].t
             num_steps == TruncDiv(lead_time, StepMinutes)
             slots == TruncDiv(num_steps, StepsPerSample)
         IN  IF sf.bearing_curr = Unbound
             THEN SfRaise("UnboundLocalError")
             ELSE [sf EXCEPT
                     !.pc = "step",
                     !.num_steps = num_steps,
                     !.drift = [j \in 1..slots |-> Placeholder],
                     !.d = Average([j \in 1..Len(sf.motion) |-> sf.motion[j].speed]),
                     !.w = Average([j \in 1..Len(sf.motion) |-> sf.motion[j].angular]),
                     !.pos = Fin(sf.track[n].lat),
                     !.bearing = sf.bearing_curr,
                     !.time = sf.track[n].t,
                     !.k = 0]
    /\ UNCHANGED <<files, pc, args, loc, hist, result, pd, fb, gt, rk, lg, ap>>

\* float addition, line 83
FAdd(x, y) ==
    IF x.k = "nan" \/ y.k = "nan" THEN NaN
    ELSE IF x.k = "inf" \/ y.k = "inf" THEN Inf
    ELSE Fin(x.v + y.v)

IsSampleStepWrong(i) == i % StepsPerSample = 0

\* Line 87: i % 4 == 3
IsSampleStep(i) == i % StepsPerSample = StepsPerSample - 1

\* One iteration of the loop of lines 81-88 (i = sf.k), or its exit.
SfStep ==
    /\ sf.pc = "step"
    /\ sf' =
         IF sf.k < sf.num_steps
         THEN LET forecast_bearing == FAdd(sf.bearing, sf.w)
                  moved == update_position(sf.pos, forecast_bearing, sf.d)
                  forecast_time == sf.time + StepMinutes
                  slot == TruncDiv(sf.k, StepsPerSample) + 1
              IN  IF ~moved.ok
                  THEN SfRaise("ValueError")
                  ELSE IF IsSampleStep(sf.k) /\ slot > Len(sf.drift)
                  THEN SfRaise("IndexError")
                  ELSE [sf EXCEPT
                          !.bearing = forecast_bearing,
                          !.pos = moved.pos,
                          !.time = forecast_time,
                          !.drift = IF IsSampleStep(sf.k)
                                    THEN [@ EXCEPT ![slot] =
                                            [t |-> forecast_time, lat |-> moved.pos,
                                             lon |-> sf.track[Len(sf.track)].lon]]
                                    ELSE @,
                          !.k = @ + 1]
         ELSE [sf EXCEPT !.pc = "return"]
    /\ UNCHANGED <<files, pc, args, loc, hist, result, pd, fb, gt, rk, lg, ap>>

\* Lines 90-93: the whole list, or its last entry (IndexError when empty).
SfReturn ==
    /\ sf.pc = "return"
    /\ sf' =
         IF sf.full
         THEN [sf EXCEPT !.pc = "done", !.kind = "returned", !.val = sf.drift]
         ELSE IF Len(sf.drift) = 0
         THEN SfRaise("IndexError")
         ELSE [sf EXCEPT !.pc = "done", !.kind = "returned",
                         !.val = <<sf.drift[Len(sf.drift)]>>]
    /\ UNCHANGED <<files, pc, args, loc, hist, result, pd, fb, gt, rk, lg, ap>>

NextSimple == SfEnter \/ SfMotion \/ SfSetup \/ SfStep \/ SfReturn

SpecSimple == InitSimple /\ [][NextSimple]_vars

(***************************************************************************)
(* parse_data, data_fetch.py lines 101-149, with the decoders of utils.py. *)
(* Decoded datetimes are whole hours since 1899-12-30 00:00, the origin of *)
(* spreadsheet serial dates.                                               *)
(***************************************************************************)
MaxLines == 4

HoursPerDay == 24

\* xldate_to_datetime: datetime(1899, 12, 30) + timedelta(days=xldate) +
\* utc_offset; xl_hours is the serial date in hours
xldate_to_datetime(xl_hours, tz) ==
    xl_hours + (IF tz = "EST" THEN 5 ELSE 0)

\* datetime(year - 1, 12, 31), as days since 1899-12-30
Dec31Before(year) ==
    CASE year = 2020 -> 43830
      [] year = 2021 -> 44196

\* decimaldoy_to_datetime: datetime(year-1, 12, 31) + timedelta(days=doy)
decimaldoy_to_datetime(doy_hours, year) ==
    Dec31Before(year) * HoursPerDay + doy_hours

\* Lines 130-135: the timestamp of a split line
DecodeTime(fields, date_format) ==
    IF date_format = "xl" THEN xldate_to_datetime(fields.tf, "UTC")
    ELSE IF date_format = "ddoy" THEN decimaldoy_to_datetime(fields.tf, fields.yf)
    ELSE fields.tf

DateFormats == {"xl", "ddoy", "iso"}

\* Time (and year) columns a line may hold, per format.  Under "ddoy", day
\* 367 of 2020 and day 1 of 2021 are the same instant.
TimeFields(date_format) ==
    IF date_format = "ddoy"
    THEN { [tf |-> 8808, yf |-> 2020], [tf |-> 24, yf |-> 2021],
           [tf |-> 48, yf |-> 2021] }
    ELSE { [tf |-> 1060728, yf |-> 0], [tf |-> 1060752, yf |-> 0] }

\* A line of the payload: "ok" splits into the columns needed and they are
\* numeric, "short" has fewer than 3 fields, "bad" has a column that float()
\* rejects.  An "ok" line carries its own line number as latitude.
LinesAt(j, date_format) ==
    { [kind |-> "ok", tf |-> f.tf, yf |-> f.yf, lat |-> j, lon |-> -150] :
        f \in TimeFields(date_format) }
    \cup { [kind |-> k, tf |-> 0, yf |-> 0, lat |-> j, lon |-> 0] :
             k \in {"short", "bad"} }

RECURSIVE PayloadsOfLen(_, _)
PayloadsOfLen(n, date_format) ==
    IF n = 0 THEN {<<>>}
    ELSE { Append(pl, ln) : pl \in PayloadsOfLen(n - 1, date_format),
                            ln \in LinesAt(n, date_format) }

NoTime == [set |-> FALSE, t |-> 0]

PdFrame(lines, date_format, reverse) ==
    [pc |-> "enter", lines |-> lines, date_format |-> date_format,
     reverse |-> reverse, i |-> 0, t_previous |-> NoTime,
     drift_track |-> <<>>, kind |-> "none", err |-> "none", val |-> <<>>]

InitParse ==
    /\ files = {}
    /\ pc = [p \in Procs |-> "idle"]
    /\ args = [p \in Procs |-> IdleArgs]
    /\ loc = [p \in Procs |-> IdleLoc]
    /\ hist = [p \in Procs |-> IdleHist]
    /\ result = [p \in Procs |-> NoResult]
    /\ sf = SfIdle
    /\ fb = FbIdle
    /\ gt = GtIdle
    /\ rk = RkIdle
    /\ lg = LgIdle
    /\ ap = ApIdle
    /\ \E fmt \in DateFormats, n \in 0..MaxLines, rv \in BOOLEAN :
         \E pl \in PayloadsOfLen(n, fmt) : pd = PdFrame(pl, fmt, rv)

PdRaise(e) == [pd EXCEPT !.pc = "done", !.kind = "raised", !.err = e]

\* Lines 118-123: next(lines) skips the first line, and raises
\* StopIteration when there is none.
PdEnter ==
    /\ pd.pc = "enter"
    /\ pd' = IF Len(pd.lines) = 0
             THEN PdRaise("StopIteration")
             ELSE [pd EXCEPT !.pc = "lines", !.i = 2]
    /\ UNCHANGED <<files, pc, args, loc, hist, result, sf, fb, gt, rk, lg, ap>>

KeepRowAlways(t, t_previous) == TRUE

\* Line 142: t != t_previous
KeepRow(t, t_previous) == ~t_previous.set \/ t # t_previous.t

\* One iteration of the loop of lines 126-144, or its exit.
PdLine ==
    /\ pd.pc = "lines"
    /\ pd' =
         IF pd.i <= Len(pd.lines)
         THEN LET line == pd.lines[pd.i]
                  t == DecodeTime(line, pd.date_format)
              IN  IF line.kind = "short"
                  THEN [pd EXCEPT !.i = @ + 1]
                  ELSE IF line.kind = "bad"
                  THEN PdRaise("ValueError")
                  ELSE IF KeepRow(t, pd.t_previous)
                  THEN [pd EXCEPT
                          !.drift_track = Append(@, [t |-> t, lat |-> line.lat,
                                                     lon |-> line.lon]),
                          !.t_previous = [set |-> TRUE, t |-> t],
                          !.i = @ + 1]
                  ELSE [pd EXCEPT !.i = @ + 1]
         ELSE [pd EXCEPT !.pc = "return"]
    /\ UNCHANGED <<files, pc, args, loc, hist, result, sf, fb, gt, rk, lg, ap>>

\* list(reversed(drift_track))
Reversed(seq) == [j \in 1..Len(seq) |-> seq[Len(seq) + 1 - j]]

\* Lines 146-149.
PdReturn ==
    /\ pd.pc = "return"
    /\ pd' = [pd EXCEPT !.pc = "done", !.kind = "returned",
                        !.val = IF pd.reverse THEN Reversed(pd.drift_track)
                                ELSE pd.drift_track]
    /\ UNCHANGED <<files, pc, args, loc, hist, result, sf, fb, gt, rk, lg, ap>>

NextParse == PdEnter \/ PdLine \/ PdReturn

SpecParse == InitParse /\ [][NextParse]_vars

(***************************************************************************)
(* fetch_by_buoyid (data_fetch.py, lines 152-209) and the fetch_data_*     *)
(* function it calls.  The remote file is a sequence of lines, oldest      *)
(* first; a payload (text) is the sequence of lines that splitlines()      *)
(* gives for it.                                                           *)
(***************************************************************************)
MaxResLines == 5

MaxHint == 2

\* n_pos / num_lines: None, or an int.
NoneHint == [some |-> FALSE, n |-> 0]

Hint(n) == [some |-> TRUE, n |-> n]

Hints == {NoneHint} \cup { Hint(n) : n \in 0..MaxHint }

\* Lines 27 and 91: "if num_lines:" is false for None and for 0.
Truthy(num_lines) == num_lines.some /\ num_lines.n # 0

\* The entries of active_buoys.json, read at lines 164-165.
BuoyCatalog ==
    [ b_http |-> [type |-> "IABP", scheme |-> "https", provider |-> "none",
                  update |-> 60],
      b_ftp  |-> [type |-> "SIMB3", scheme |-> "ftp", provider |-> "none",
                  update |-> 60],
      b_pg   |-> [type |-> "PacificGyre", scheme |-> "https",
                  provider |-> "osu", update |-> 10],
      b_pg2  |-> [type |-> "PacificGyre", scheme |-> "https",
                  provider |-> "nokey", update |-> 60],
      b_new  |-> [type |-> "Unlisted", scheme |-> "https",
                  provider |-> "none", update |-> 60] ]

\* The ids a caller may ask for: "b_gone" has left the catalog.
BuoyIds == DOMAIN BuoyCatalog \cup {"b_gone"}

\* The entries of static/buoy_staticvars.json, read at lines 178-179.
FormatCatalog ==
    [ IABP        |-> [line_len |-> 10, date_fmt |-> "xl"],
      SIMB3       |-> [line_len |-> 10, date_fmt |-> "xl"],
      PacificGyre |-> [line_len |-> 10, date_fmt |-> "xl"] ]

\* credentials.API_KEY, line 11.
API_KEY == {"osu"}

\* Bytes a line of the remote file really takes; line_len is approximate.
LineBytes == {8, 12}

\* Line j of the remote file: observation at hour 1060728 + j.
ResLine(j) ==
    [kind |-> "ok", tf |-> 1060728 + j, yf |-> 0, lat |-> j, lon |-> -150]

Resource(nl) == [j \in 1..nl |-> ResLine(j)]

\* A line that is no observation: header, end marker, cut line, error page.
OtherLine(kind, j) == [kind |-> kind, tf |-> 0, yf |-> 0, lat |-> j, lon |-> 0]

EofMarker == OtherLine("short", -1)

\* The bodies a server sends with a failure status: an error page, whose
\* lines split into fewer than 3 fields, or into 3 or more.
ErrorBodies ==
    { <<OtherLine("short", -2), OtherLine("short", -3)>>,
      <<OtherLine("short", -2), OtherLine("bad", -3)>> }

NoRange == [set |-> FALSE, lo |-> 0, hi |-> 0]

\* The body of a successful GET of a file of nl lines of lb bytes: the
\* whole file, or the bytes from range.lo on, whose first line is cut when
\* range.lo is inside a line.
ServerBody(nl, lb, range) ==
    IF ~range.set THEN Resource(nl)
    ELSE LET first == (range.lo \div lb) + 1
         IN  [j \in 1..(nl + 1 - first) |->
                IF j = 1 /\ range.lo % lb # 0
                THEN OtherLine("short", first)
                ELSE ResLine(first + j - 1)]

\* What the Pacific Gyre API sends: a header line, then the newest first.
PgapiBody(nl) ==
    [j \in 1..(nl + 1) |->
        IF j = 1 THEN OtherLine("short", 0) ELSE ResLine(nl + 2 - j)]

FbFrame(buoy_id, n_pos, nl, lb) ==
    [pc |-> "lookup", buoy_id |-> buoy_id, n_pos |-> n_pos,
     nl |-> nl, lb |-> lb,
     requests |-> <<>>,       \* the requests sent, in order
     max_byte |-> 0, ftp_open |-> FALSE, received |-> <<>>,
     text |-> <<>>, reverse |-> FALSE,
     head |-> "none",         \* how the HEAD request ended
     get |-> "none",          \* how the GET or the FTP session ended
     kind |-> "none", err |-> "none", val |-> <<>>]

InitFetch ==
    /\ files = {}
    /\ pc = [p \in Procs |-> "idle"]
    /\ args = [p \in Procs |-> IdleArgs]
    /\ loc = [p \in Procs |-> IdleLoc]
    /\ hist = [p \in Procs |-> IdleHist]
    /\ result = [p \in Procs |-> NoResult]
    /\ sf = SfIdle
    /\ pd = PdIdle
    /\ gt = GtIdle
    /\ rk = RkIdle
    /\ lg = LgIdle
    /\ ap = ApIdle
    /\ \E id \in BuoyIds, h \in Hints, nl \in 0..MaxResLines, lb \in LineBytes :
         fb = FbFrame(id, h, nl, lb)

FbBuoy == BuoyCatalog[fb.buoy_id]

FbFormat == FormatCatalog[FbBuoy.type]

FbRaise(e) == [fb EXCEPT !.pc = "done", !.kind = "raised", !.err = e]

\* Lines 164-168: a buoy that is not in the catalog gives [].
FbLookup ==
    /\ fb.pc = "lookup"
    /\ fb' = IF fb.buoy_id \notin DOMAIN BuoyCatalog
             THEN [fb EXCEPT !.pc = "done", !.kind = "returned", !.val = <<>>]
             ELSE [fb EXCEPT !.pc = "format"]
    /\ UNCHANGED <<files, pc, args, loc, hist, result, sf, pd, gt, rk, lg, ap>>

\* Lines 177-205: json.load(fhandle)[buoy_type] raises KeyError for a type
\* that has no entry; otherwise the fetcher is chosen.
FbDispatch ==
    /\ fb.pc = "format"
    /\ fb' = IF FbBuoy.type \notin DOMAIN FormatCatalog
             THEN FbRaise("KeyError")
             ELSE IF FbBuoy.type = "PacificGyre"
             THEN [fb EXCEPT !.pc = "pgapi", !.reverse = TRUE]
             ELSE IF FbBuoy.scheme = "ftp"
             THEN [fb EXCEPT !.pc = "ftp_connect"]
             ELSE [fb EXCEPT !.pc = "http_head"]
    /\ UNCHANGED <<files, pc, args, loc, hist, result, sf, pd, gt, rk, lg, ap>>

Max(a, b) == IF a >= b THEN a ELSE b

RangeOffsetUnclamped(max_byte, line_length, num_lines) ==
    max_byte - (line_length * num_lines)

\* Line 32
RangeOffset(max_byte, line_length, num_lines) ==
    Max(max_byte - (line_length * num_lines), 0)

\* Line 35
RangeHeader(max_byte, line_length, num_lines) ==
    [set |-> TRUE, lo |-> RangeOffset(max_byte, line_length, num_lines),
     hi |-> max_byte]

FbHeaders ==
    IF Truthy(fb.n_pos)
    THEN RangeHeader(fb.max_byte, FbFormat.line_len, fb.n_pos.n)
    ELSE NoRange

HeadOutcomes == {"ok", "status_len", "status_nolen", "unreachable"}

\* fetch_data_http, lines 26-35: with a count, a HEAD request gives
\* max_byte.  The status of the response is not looked at: a failure
\* response that has a Content-Length is used like any other, one that has
\* none raises KeyError at line 31.
FbHttpHead ==
    /\ fb.pc = "http_head"
    /\ IF ~Truthy(fb.n_pos)
       THEN fb' = [fb EXCEPT !.pc = "http_get"]
       ELSE \E o \in HeadOutcomes, eb \in ErrorBodies :
              LET sent == [fb EXCEPT !.requests = Append(@, [method |-> "HEAD", range |-> NoRange]),
                                     !.head = o]
              IN  fb' = CASE o = "ok" ->
                               [sent EXCEPT !.pc = "http_get",
                                            !.max_byte = fb.nl * fb.lb]
                          [] o = "status_len" ->
                               [sent EXCEPT !.pc = "http_get",
                                            !.max_byte = Len(eb) * fb.lb]
                          [] o = "status_nolen" ->
                               [sent EXCEPT !.pc = "done", !.kind = "raised",
                                            !.err = "KeyError"]
                          [] OTHER ->
                               [sent EXCEPT !.pc = "done", !.kind = "raised",
                                            !.err = "ConnectionError"]
    /\ UNCHANGED <<files, pc, args, loc, hist, result, sf, pd, gt, rk, lg, ap>>

GetOutcomes == {"ok", "status", "unreachable"}

\* requests.get(...) as req: return req.text (lines 36-37 and 60-61): the
\* text of the response, whatever its status.
GetText(sent, o, body, eb) ==
    CASE o = "ok" -> [sent EXCEPT !.pc = "parse", !.get = o, !.text = body]
      [] o = "status" -> [sent EXCEPT !.pc = "parse", !.get = o, !.text = eb]
      [] OTHER -> [sent EXCEPT !.pc = "done", !.get = o, !.kind = "raised",
                               !.err = "ConnectionError"]

\* fetch_data_http, lines 36-37.
FbHttpGet ==
    /\ fb.pc = "http_get"
    /\ \E o \in GetOutcomes, eb \in ErrorBodies :
         LET sent == [fb EXCEPT !.requests = Append(@, [method |-> "GET", range |-> FbHeaders])]
         IN  fb' = GetText(sent, o, ServerBody(fb.nl, fb.lb, FbHeaders), eb)
    /\ UNCHANGED <<files, pc, args, loc, hist, result, sf, pd, gt, rk, lg, ap>>

\* Lines 189-197 and fetch_data_pgapi, lines 50-61.
FbPgapi ==
    /\ fb.pc = "pgapi"
    /\ IF FbBuoy.provider \notin API_KEY
       THEN fb' = FbRaise("KeyError")
       ELSE \E o \in GetOutcomes, eb \in ErrorBodies :
              LET sent == [fb EXCEPT !.requests = Append(@, [method |-> "GET", range |-> NoRange])]
              IN  fb' = GetText(sent, o, PgapiBody(fb.nl), eb)
    /\ UNCHANGED <<files, pc, args, loc, hist, result, sf, pd, gt, rk, lg, ap>>

FtpOutcomes == {"ok", "error"}

\* fetch_data_ftp, line 81: FTP(host) connects; a host that cannot be
\* reached raises OSError, which no handler catches.
FbFtpConnect ==
    /\ fb.pc = "ftp_connect"
    /\ \E o \in FtpOutcomes :
         fb' = IF o = "ok"
               THEN [fb EXCEPT !.pc = "ftp_login", !.ftp_open = TRUE]
               ELSE [fb EXCEPT !.pc = "done", !.get = "unreachable",
                               !.kind = "raised", !.err = "OSError"]
    /\ UNCHANGED <<files, pc, args, loc, hist, result, sf, pd, gt, rk, lg, ap>>

\* Lines 82 and 85-86: a refused login raises ftplib.Error, which the
\* handler raises again.
FbFtpLogin ==
    /\ fb.pc = "ftp_login"
    /\ \E o \in FtpOutcomes :
         fb' = IF o = "ok"
               THEN [fb EXCEPT !.pc = "ftp_retr"]
               ELSE [fb EXCEPT !.pc = "done", !.get = "login",
                               !.kind = "raised", !.err = "ftplib.Error"]
    /\ UNCHANGED <<files, pc, args, loc, hist, result, sf, pd, gt, rk, lg, ap>>

\* Lines 83 and 85-86: retrlines appends every line received to data.
FbFtpRetr ==
    /\ fb.pc = "ftp_retr"
    /\ \E o \in FtpOutcomes :
         fb' = IF o = "ok"
               THEN [fb EXCEPT !.pc = "ftp_quit",
                               !.received = Append(Resource(fb.nl), EofMarker)]
               ELSE [fb EXCEPT !.pc = "done", !.get = "transfer",
                               !.kind = "raised", !.err = "ftplib.Error"]
    /\ UNCHANGED <<files, pc, args, loc, hist, result, sf, pd, gt, rk, lg, ap>>

\* The index (from 0) a slice bound i stands for in a list of n items.
SliceIndex(i, n) == IF i < 0 THEN Max(i + n, 0) ELSE IF i > n THEN n ELSE i

\* seq[lo:hi]
PySlice(seq, lo, hi) ==
    SubSeq(seq, SliceIndex(lo, Len(seq)) + 1, SliceIndex(hi, Len(seq)))

\* Line 92: the lower bound of the slice
TailStart(num_lines) == -(num_lines + 2)

\* Lines 91-94
TailLines(data, num_lines) ==
    IF Truthy(num_lines)
    THEN PySlice(data, TailStart(num_lines.n), -1)
    ELSE PySlice(data, 0, -1)

\* Line 97 and then splitlines(): "\n".join(data) + "\n" is "\n" for no
\* line, which splits into one empty line.
JoinedLines(data) ==
    IF Len(data) = 0 THEN <<OtherLine("short", -4)>> ELSE data

\* Lines 84 and 89-98: quit() closes the connection, then the payload is
\* cut out of the lines received.
FbFtpQuit ==
    /\ fb.pc = "ftp_quit"
    /\ fb' = [fb EXCEPT !.pc = "parse", !.ftp_open = FALSE, !.get = "ok",
                        !.text = JoinedLines(TailLines(fb.received, fb.n_pos))]
    /\ UNCHANGED <<files, pc, args, loc, hist, result, sf, pd, gt, rk, lg, ap>>

\* Lines 208-209: parse_data is called on the payload.
FbParse ==
    /\ fb.pc = "parse"
    /\ fb' = [fb EXCEPT !.pc = "parsing"]
    /\ pd' = PdFrame(fb.text, FbFormat.date_fmt, fb.reverse)
    /\ UNCHANGED <<files, pc, args, loc, hist, result, sf, gt, rk, lg, ap>>

\* Line 208: what parse_data returns or raises is the outcome of the call.
FbReturn ==
    /\ fb.pc = "parsing"
    /\ pd.pc = "done"
    /\ fb' = [fb EXCEPT !.pc = "done", !.kind = pd.kind, !.err = pd.err,
                        !.val = pd.val]
    /\ UNCHANGED <<files, pc, args, loc, hist, result, sf, pd, gt, rk, lg, ap>>

NextFetch ==
    \/ FbLookup \/ FbDispatch
    \/ FbHttpHead \/ FbHttpGet
    \/ FbPgapi
    \/ FbFtpConnect \/ FbFtpLogin \/ FbFtpRetr \/ FbFtpQuit
    \/ FbParse \/ PdEnter \/ PdLine \/ PdReturn \/ FbReturn

SpecFetch == InitFetch /\ [][NextFetch]_vars

(***************************************************************************)
(* bearing_diff (geo_tools.py, lines 36-40) applied to a pair of bearings. *)
(***************************************************************************)
\* Bearings in whole degrees: what calc_bearing gives, and values that a
\* bearing stepped by an angular velocity takes outside [0, 360).
Bearings ==
    {-180, -90, 0, 1, 45, 90, 135, 179, 180, 181, 225, 270, 315, 359, 360, 540}

InitGeo ==
    /\ files = {}
    /\ pc = [p \in Procs |-> "idle"]
    /\ args = [p \in Procs |-> IdleArgs]
    /\ loc = [p \in Procs |-> IdleLoc]
    /\ hist = [p \in Procs |-> IdleHist]
    /\ result = [p \in Procs |-> NoResult]
    /\ sf = SfIdle
    /\ pd = PdIdle
    /\ fb = FbIdle
    /\ rk = RkIdle
    /\ lg = LgIdle
    /\ ap = ApIdle
    /\ \E b1, b2 \in Bearings : gt = [pc |-> "call", b1 |-> b1, b2 |-> b2, r |-> 0]

GtBearingDiff ==
    /\ gt.pc = "call"
    /\ gt' = [gt EXCEPT !.pc = "done", !.r = bearing_diff(gt.b1, gt.b2)]
    /\ UNCHANGED <<files, pc, args, loc, hist, result, sf, pd, fb, rk, lg, ap>>

NextGeo == GtBearingDiff

SpecGeo == InitGeo /\ [][NextGeo]_vars

(***************************************************************************)
(* rk4 (forecast_position.py, lines 269-322) as _advanced_forecast calls   *)
(* it at line 257, and the time stamps of lines 261-266.  Times are in     *)
(* minutes, positions in metres, velocities in metres per hour.  The       *)
(* velocity field is uniform over the local grid, which is a square        *)
(* around the start position.                                              *)
(***************************************************************************)
MaxLead == 3

\* step_size = .5 (hours), line 257
HalfHour == 30

\* u and v of the field, after the scaling of lines 252-254
Velocities == {-400, 0, 400}

\* Half the width of the local grid
GridHalfWidths == {500, 5000}

RkFrame(final_step, full, u, v, g) ==
    [pc |-> "loop", final_step |-> final_step, full |-> full,
     u |-> u, v |-> v, g |-> g,
     buoy_time |-> (CHOOSE b \in BuoyPositions : TRUE).t,
     tn |-> 0, x |-> 0, y |-> 0,
     steps |-> 0,             \* iterations of the loop so far
     from |-> [x |-> 0, y |-> 0],   \* (x, y) before the last iteration
     samples |-> <<>>,        \* where the last iteration sampled u and v
     forecast_drift |-> <<>>,
     kind |-> "none", err |-> "none", val |-> <<>>]

InitRk4 ==
    /\ files = {}
    /\ pc = [p \in Procs |-> "idle"]
    /\ args = [p \in Procs |-> IdleArgs]
    /\ loc = [p \in Procs |-> IdleLoc]
    /\ hist = [p \in Procs |-> IdleHist]
    /\ result = [p \in Procs |-> NoResult]
    /\ sf = SfIdle
    /\ pd = PdIdle
    /\ fb = FbIdle
    /\ gt = GtIdle
    /\ lg = LgIdle
    /\ ap = ApIdle
    /\ \E H \in 0..MaxLead, full \in BOOLEAN, u \in Velocities,
          v \in Velocities, g \in GridHalfWidths :
         rk = RkFrame(H, full, u, v, g)

\* Lines 236 and 294-295: the interpolators are defined on grid_t =
\* 0 .. lead_time_hours + 3 and on the local grid, with bounds_error=True.
InBounds(t, x, y) ==
    /\ 0 <= t /\ t <= (rk.final_step + 3) * Hour
    /\ -rk.g <= x /\ x <= rk.g
    /\ -rk.g <= y /\ y <= rk.g

\* h * k for a velocity k in metres per hour
StepOf(k) == (k * HalfHour) \div Hour

\* Line 298: while tn <= final_step
LoopGuard(tn, final_step) == tn <= final_step * Hour

\* Lines 303-308: the point at which interpolant c (1: u_interp,
\* 2: v_interp) is sampled at a stage that follows a stage of value k, the
\* stage being h/den after tn.  Both coordinates are moved by k[c].
SamplePoint(x, y, k, c, den) ==
    [x |-> x + StepOf(k[c]) \div den, y |-> y + StepOf(k[c]) \div den]

\* One iteration of the loop of lines 298-316, or its exit.  Each of the
\* eight interpolator calls raises ValueError for a point out of bounds.
\* The field being uniform, every stage has the value (u, v).
RkStep ==
    /\ rk.pc = "loop"
    /\ rk' =
         IF LoopGuard(rk.tn, rk.final_step)
         THEN LET h == HalfHour
                  k1 == <<rk.u, rk.v>>
                  k2 == <<rk.u, rk.v>>
                  k3 == <<rk.u, rk.v>>
                  k4 == <<rk.u, rk.v>>
                  samples ==
                    << [c \in 1..2 |-> SamplePoint(rk.x, rk.y, k1, c, 2)],
                       [c \in 1..2 |-> SamplePoint(rk.x, rk.y, k2, c, 2)],
                       [c \in 1..2 |-> SamplePoint(rk.x, rk.y, k3, c, 1)] >>
                  inside ==
                    /\ InBounds(rk.tn, rk.x, rk.y)
                    /\ \A c \in 1..2 :
                         /\ InBounds(rk.tn + h \div 2,
                                     samples[1][c].x, samples[1][c].y)
                         /\ InBounds(rk.tn + h \div 2,
                                     samples[2][c].x, samples[2][c].y)
                         /\ InBounds(rk.tn + h,
                                     samples[3][c].x, samples[3][c].y)
                  tn == rk.tn + h
                  x == rk.x + StepOf(k1[1] + 2 * k2[1] + 2 * k3[1] + k4[1]) \div 6
                  y == rk.y + StepOf(k1[2] + 2 * k2[2] + 2 * k3[2] + k4[2]) \div 6
              IN  IF ~inside
                  THEN [rk EXCEPT !.pc = "done", !.kind = "raised",
                                  !.err = "ValueError"]
                  ELSE [rk EXCEPT
                          !.tn = tn, !.x = x, !.y = y, !.steps = @ + 1,
                          !.from = [x |-> rk.x, y |-> rk.y],
                          !.samples = samples,
                          !.forecast_drift =
                              IF rk.full
                              THEN Append(@, [tn |-> tn, x |-> x, y |-> y])
                              ELSE @]
         ELSE [rk EXCEPT !.pc = "return"]
    /\ UNCHANGED <<files, pc, args, loc, hist, result, sf, pd, fb, gt, lg, ap>>

\* Lines 318-322, then lines 261-266: every (tn, x, y) is stamped
\* buoy_time + tn.
RkReturn ==
    /\ rk.pc = "return"
    /\ LET forecast_drift_xy ==
             IF rk.full THEN rk.forecast_drift
             ELSE <<[tn |-> rk.tn, x |-> rk.x, y |-> rk.y]>>
       IN  rk' = [rk EXCEPT
                    !.pc = "done", !.kind = "returned",
                    !.val = [j \in 1..Len(forecast_drift_xy) |->
                               [t |-> rk.buoy_time + forecast_drift_xy[j].tn,
                                x |-> forecast_drift_xy[j].x,
                                y |-> forecast_drift_xy[j].y]]]
    /\ UNCHANGED <<files, pc, args, loc, hist, result, sf, pd, fb, gt, lg, ap>>

NextRk4 == RkStep \/ RkReturn

SpecRk4 == InitRk4 /\ [][NextRk4]_vars

(***************************************************************************)
(* local_grid_bounds_check (forecast_position.py, lines 325-349): the      *)
(* slice bounds of the local window that _advanced_forecast cuts out of    *)
(* the grid (lines 212-221).  A grid is represented by its shape.          *)
(***************************************************************************)
MaxGridSide == 4

MaxLgs == 2

\* The grids: two-dimensional arrays with at least one row and column.
GridShapes == (1..MaxGridSide) \X (1..MaxGridSide)

\* Lines 325-349.  Indices are 0-based as in the code; idx is <<row, col>>.
local_grid_bounds_check(big_grid, idx, lgs) ==
    LET xmax == big_grid[1]
        ymax == big_grid[2]
        a == idx[1] - lgs
        b == idx[1] + lgs + 1
        i == idx[2] - lgs
        j == idx[2] + lgs + 1
    IN  << IF a < 0 THEN 0 ELSE a,
           IF b >= xmax THEN xmax - 1 ELSE b,
           IF i < 0 THEN 0 ELSE i,
           IF j >= ymax THEN ymax - 1 ELSE j >>

InitGrid ==
    /\ files = {}
    /\ pc = [p \in Procs |-> "idle"]
    /\ args = [p \in Procs |-> IdleArgs]
    /\ loc = [p \in Procs |-> IdleLoc]
    /\ hist = [p \in Procs |-> IdleHist]
    /\ result = [p \in Procs |-> NoResult]
    /\ sf = SfIdle
    /\ pd = PdIdle
    /\ fb = FbIdle
    /\ gt = GtIdle
    /\ rk = RkIdle
    /\ ap = ApIdle
    /\ \E big_grid \in GridShapes, lgs \in 0..MaxLgs :
         \E idx \in (0..(big_grid[1] - 1)) \X (0..(big_grid[2] - 1)) :
            lg = [pc |-> "call", big_grid |-> big_grid, idx |-> idx,
                  lgs |-> lgs, val |-> <<>>]

\* Line 215: the call and its return value.
LgCall ==
    /\ lg.pc = "call"
    /\ lg' = [lg EXCEPT
                !.pc = "done",
                !.val = local_grid_bounds_check(lg.big_grid, lg.idx, lg.lgs)]
    /\ UNCHANGED <<files, pc, args, loc, hist, result, sf, pd, fb, gt, rk, ap>>

NextGrid == LgCall

SpecGrid == InitGrid /\ [][NextGrid]_vars

(***************************************************************************)
(* update_record of the web application (app.py, lines 250-291), with      *)
(* update_bouy (lines 294-315), query_buoy_data (lines 219-229) and        *)
(* update_primary (lines 232-247).  The state is the database: the rows    *)
(* of Buoy and the last_update and primary_buoy rows of Variables.         *)
(* Requests are served one after the other.                                *)
(***************************************************************************)

\* Line 72: datetime(1900, 1, 1), the value init_tables gives last_update.
DefaultDate == 0

\* Line 98: the value_txt init_tables gives the primary_buoy row.
DefaultPrimary == "443910"

\* Python's None.  The primary_buoy row is created without a value (line
\* 98) and no statement of app.py assigns one, so its value column is None.
PyNone == "None"

\* static/active_buoys.json (line 264): the ids, in the order of the file.
ActiveBuoys == <<"443910", "300534">>

ActiveIds == {ActiveBuoys[n] : n \in 1..Len(ActiveBuoys)}

\* The times at which requests arrive, and the observation times the
\* data sources can hold.
CallTimes == {3000, 3010, 3020, 3400}

ObsTimes == {2600, 2990, 3390}

\* Line 250: the values of the throttle parameter, in minutes.
Throttles == {15}

\* Line 275: timedelta(hours=5).
StaleAge == 5 * Hour

ThrottledOnlyAtZero(time_since_update, throttle) == time_since_update <= 0

\* Line 259: time_since_update < timedelta(minutes=throttle).
Throttled(time_since_update, throttle) == time_since_update < throttle

\* Lines 300-302: the number of positions update_bouy asks for.
NPos(time_since_update) ==
    LET n_pos == (time_since_update \div Hour) + 2
    IN  IF n_pos > 200 THEN 200 ELSE n_pos

\* Buoy.query.filter_by(buoy=b).order_by(Buoy.date.desc()).limit(1): the
\* dates of the rows it yields (none or one).
LatestRows(rows, b) ==
    IF b \notin DOMAIN rows THEN {}
    ELSE {d \in rows[b] : \A e \in rows[b] : e <= d}

\* Lines 280-285: the loop over the active buoys from position n on, with
\* the age to beat and the buoy chosen so far.  Every buoy has a row.
RECURSIVE SearchLowestAge(_, _, _, _, _)
SearchLowestAge(rows, current_time, n, primary_age, primary_buoy) ==
    IF n > Len(ActiveBuoys) THEN primary_buoy
    ELSE LET buoy == ActiveBuoys[n]
             date == CHOOSE d \in LatestRows(rows, buoy) : TRUE
             obs_age == current_time - date
         IN  IF obs_age < primary_age
             THEN SearchLowestAge(rows, current_time, n + 1, obs_age, buoy)
             ELSE SearchLowestAge(rows, current_time, n + 1,
                                  primary_age, primary_buoy)

\* The fields of the call that is not running.
NoCall == [current_time |-> 0, throttle |-> 0, time_since_update |-> 0,
           todo |-> <<>>, fetched |-> <<>>, kind |-> "none", err |-> "none",
           pre |-> <<>>]

InitApp ==
    /\ files = {}
    /\ pc = [p \in Procs |-> "idle"]
    /\ args = [p \in Procs |-> IdleArgs]
    /\ loc = [p \in Procs |-> IdleLoc]
    /\ hist = [p \in Procs |-> IdleHist]
    /\ result = [p \in Procs |-> NoResult]
    /\ sf = SfIdle
    /\ pd = PdIdle
    /\ fb = FbIdle
    /\ gt = GtIdle
    /\ rk = RkIdle
    /\ lg = LgIdle
    /\ ap = [pc |-> "idle",
             last_update |-> DefaultDate,      \* Variables: last_update.value
             primary |-> DefaultPrimary,       \* primary_buoy.value_txt
             rows |-> [b \in ActiveIds |-> {}], \* Buoy: dates, per buoy
             now |-> 0,                        \* time of the latest request
             call |-> NoCall]

\* Lines 255-260: a request calls update_record(current_time, throttle);
\* the throttled call returns at once.
ApCall ==
    /\ ap.pc = "idle"
    /\ \E current_time \in CallTimes, throttle \in Throttles :
         LET time_since_update == current_time - ap.last_update
             call == [NoCall EXCEPT
                        !.current_time = current_time,
                        !.throttle = throttle,
                        !.time_since_update = time_since_update,
                        !.pre = [last_update |-> ap.last_update,
                                 primary |-> ap.primary,
                                 rows |-> ap.rows]]
         IN  /\ current_time >= ap.now
             /\ IF Throttled(time_since_update, throttle)
                THEN ap' = [ap EXCEPT !.pc = "done", !.now = current_time,
                                      !.call = [call EXCEPT !.kind = "returned"]]
                ELSE ap' = [ap EXCEPT !.pc = "update_bouy", !.now = current_time,
                                      !.call = [call EXCEPT !.todo = ActiveBuoys]]
    /\ UNCHANGED <<files, pc, args, loc, hist, result, sf, pd, fb, gt, rk, lg>>

\* Lines 267-268 with update_bouy (lines 294-315): one iteration of the
\* loop.  fetch_by_buoyid raises on a network failure; otherwise the points
\* it returns that are not yet in the table are added and committed.
ApUpdateBuoy ==
    /\ ap.pc = "update_bouy"
    /\ ap.call.todo # <<>>
    /\ LET buoy_id == Head(ap.call.todo)
           n_pos == NPos(ap.call.time_since_update)
           fetched == Append(ap.call.fetched, [buoy_id |-> buoy_id, n_pos |-> n_pos + 2])
       IN  \/ ap' = [ap EXCEPT !.pc = "done",
                               !.call = [@ EXCEPT !.fetched = fetched,
                                                  !.kind = "raised",
                                                  !.err = "fetch_by_buoyid"]]
           \/ \E new_points \in SUBSET {d \in ObsTimes : d <= ap.call.current_time} :
                ap' = [ap EXCEPT
                         !.rows[buoy_id] = @ \cup new_points,
                         !.pc = IF Tail(ap.call.todo) = <<>>
                                THEN "select" ELSE "update_bouy",
                         !.call = [@ EXCEPT !.fetched = fetched,
                                            !.todo = Tail(@)]]
    /\ UNCHANGED <<files, pc, args, loc, hist, result, sf, pd, fb, gt, rk, lg>>

\* Lines 270-291 with update_primary (lines 232-247).  update_primary
\* commits the new value_txt and then calls update_forecast('s') and
\* update_forecast('a'); the latter calls advanced_forecast with five
\* positional arguments and full_forecast (lines 352-357) against the
\* signature of forecast_position.py line 88, a TypeError, so update_primary
\* never returns.
ApSelect ==
    /\ ap.pc = "select"
    /\ LET current_time == ap.call.current_time
           raise(err) == [ap EXCEPT !.pc = "done",
                                    !.call = [@ EXCEPT !.kind = "raised",
                                                       !.err = err]]
       IN  IF LatestRows(ap.rows, ap.primary) = {}
           THEN \* line 270: query_buoy_data()[0] on no rows
                ap' = raise("IndexError")
           ELSE LET date == CHOOSE d \in LatestRows(ap.rows, ap.primary) : TRUE
                    obs_age == current_time - date
                IN  IF obs_age > StaleAge
                    THEN IF \E b \in ActiveIds : LatestRows(ap.rows, b) = {}
                         THEN \* line 281: [0] on no rows
                              ap' = raise("IndexError")
                         ELSE \E simple_returns \in BOOLEAN :
                                ap' = [raise(IF simple_returns
                                             THEN "TypeError"
                                             ELSE "simple_forecast")
                                         EXCEPT !.primary =
                                           SearchLowestAge(ap.rows, current_time,
                                                           1, obs_age, PyNone)]
                    ELSE \* lines 290-291
                         ap' = [ap EXCEPT !.pc = "done",
                                          !.last_update = current_time,
                                          !.call = [@ EXCEPT !.kind = "returned"]]
    /\ UNCHANGED <<files, pc, args, loc, hist, result, sf, pd, fb, gt, rk, lg>>

\* The request is answered; the next one may arrive.
ApFinish ==
    /\ ap.pc = "done"
    /\ ap' = [ap EXCEPT !.pc = "idle", !.call = NoCall]
    /\ UNCHANGED <<files, pc, args, loc, hist, result, sf, pd, fb, gt, rk, lg>>

NextApp == ApCall \/ ApUpdateBuoy \/ ApSelect \/ ApFinish

SpecApp == InitApp /\ [][NextApp]_vars

(***************************************************************************)
(* Claims about advanced_forecast.                                         *)
(***************************************************************************)

\* The need window of caller p's request: [buoy observation time,
\* target_time + 4 h].
NeedStart(p) == args[p].bp.t
NeedEnd(p) == FetchDateEnd(args[p].target)

Selected(p) == pc[p] \in {"load", "run"}

Returned(p) == pc[p] = "done" /\ result[p].kind = "returned"

\* C1: the file a call selects and loads, reused or freshly acquired, covers
\* the need window: covered-start <= buoy observation time and
\* covered-end >= target_time + 4 h.
C1_SelectedCoversNeed ==
    \A p \in Procs :
        Selected(p) => loc[p].start <= NeedStart(p) /\ loc[p].end >= NeedEnd(p)

\* C2: with concurrent calls whose need windows overlap, at most one
\* acquisition is in flight at any time, and no call loads a file that
\* another call is still writing.
NeedsOverlap(p, q) == NeedStart(p) <= NeedEnd(q) /\ NeedStart(q) <= NeedEnd(p)

C2_OneAcquisitionInFlight ==
    /\ \A p, q \in InFlight : NeedsOverlap(p, q) => p = q
    /\ \A p \in Procs : ~hist[p].loadedPartial

\* C3: when the start cell is masked in a window reused from the cache, the
\* call has retried once with a forced refresh (one recursion, one new
\* acquisition) by the time it returns.
C3_MaskedReusedRetries ==
    \A p \in Procs :
        (Returned(p) /\ hist[p].reused1 /\ hist[p].fail1 = "masked")
            => hist[p].depth = 1 /\ hist[p].acq = 1

\* C4: when the call acquired a fresh window and the start cell is masked
\* in it, the call returns exactly one point, the unmodified input buoy
\* position, and has performed exactly one acquisition.
C4_FreshMaskedDegrades ==
    \A p \in Procs :
        (Returned(p) /\ loc[p].update /\ hist[p].lastrun = "masked")
            => /\ result[p].drift = "last_known"
               /\ result[p].pts = <<args[p].bp>>
               /\ hist[p].acq = 1

C4_Witness ==
    \E p \in Procs :
        /\ Returned(p) /\ loc[p].update /\ hist[p].lastrun = "masked"
        /\ result[p].pts = <<args[p].bp>>
        /\ hist[p].acq = 1

\* C5: an interpolation-domain error and a masked start cell lead to the
\* same retry behaviour: two calls whose first attempt failed, one way or
\* the other, on the same kind of window (reused or fresh) have retried the
\* same number of times, and a call whose last attempt failed returns the
\* single last-known position.
C5_FailureKindsAlike ==
    /\ \A p, q \in Procs :
         (/\ Returned(p) /\ Returned(q)
          /\ hist[p].fail1 # "none" /\ hist[q].fail1 # "none"
          /\ hist[p].reused1 = hist[q].reused1)
            => hist[p].depth = hist[q].depth
    /\ \A p \in Procs :
         (Returned(p) /\ hist[p].lastrun # "ok")
            => result[p].pts = <<args[p].bp>>

\* C20: when the scan of a call is over and none of its removals was
\* refused, every file of the glob result that does not cover the need
\* window [buoy observation time, target_time + 4 h] has been removed, and
\* under force_update every file of the glob result has been removed and
\* no file is selected, so that the call goes on to acquire a new one.
C20_NonCoveringDeleted ==
    \A p \in Procs :
        (pc[p] = "scan" /\ loc[p].todo = {} /\ ~loc[p].denied)
            => /\ \A f \in loc[p].kept :
                    /\ f.s <= NeedStart(p) /\ f.e >= NeedEnd(p)
                    /\ ~args[p].force
               /\ args[p].force => loc[p].valid = NoFile

\* C21: the window decoded from the name of a freshly acquired file
\* equals the window [date_min, date_max] that fetch_topaz_forecast
\* requested and returned, also when the observation or target time is not
\* on a whole hour; the decoded start is never before the requested start.
C21_NameRoundTrip ==
    \A p \in Procs :
        (pc[p] = "load" /\ loc[p].update)
            => /\ loc[p].fname.s = loc[p].start
               /\ loc[p].fname.e = loc[p].end
               /\ loc[p].fname.s >= loc[p].start

\* C25: a top-level call of advanced_forecast recurses at most once and
\* performs at most one acquisition in total, and, the acquisition and the
\* load returning, every call that was started reaches its end.
C25_TerminatesAfterOneRetry ==
    /\ [](hist[Solo].depth <= 1 /\ hist[Solo].acq <= 1)
    /\ (pc[Solo] = "scan" ~> pc[Solo] = "done")

C25_Witness ==
    /\ Returned(Solo)
    /\ hist[Solo].depth = 1
    /\ hist[Solo].acq = 1
    /\ hist[Solo].reused1

\* C26: a call made with return_topaz_stats = True returns the 4-tuple
\* (forecast, refreshed flag, covered start, covered end) on every path,
\* the path of the forced-refresh retry included.
C26_StatsTupleOnEveryPath ==
    \A p \in Procs :
        (Returned(p) /\ hist[p].stats) => result[p].shape = "tuple4"

\* C27: with concurrent calls, the file a call selected for reuse still
\* exists when the call loads it: no scan of another call removes it
\* between the selection and the load.
C27_SelectedSurvivesToLoad ==
    \A p \in Procs :
        (pc[p] = "load" /\ ~loc[p].update) => loc[p].fname \in files

(***************************************************************************)
(* Claims about simple_forecast.                                           *)
(***************************************************************************)
SfDone == sf.pc = "done"

SfLast == sf.track[Len(sf.track)]

SfIncreasing ==
    \A j \in 1..(Len(sf.track) - 1) : sf.track[j].t < sf.track[j + 1].t

SfZeroDelta ==
    \E j \in 1..(Len(sf.track) - 1) : sf.track[j].t = sf.track[j + 1].t

\* C6: for a track of at least 3 points with strictly increasing
\* timestamps, full_forecast=True returns samples whose timestamps are the
\* last observation time plus 1 hour, plus 2 hours, ...: strictly
\* increasing, exactly 1 hour apart.
C6_HourlySpacing ==
    (SfDone /\ sf.full /\ Len(sf.track) >= 3 /\ SfIncreasing)
        => /\ sf.kind = "returned"
           /\ \A j \in 1..Len(sf.val) : sf.val[j].t = SfLast.t + j * Hour

C6_Witness ==
    /\ SfDone /\ sf.full /\ Len(sf.track) >= 3 /\ SfIncreasing
    /\ sf.kind = "returned"
    /\ Len(sf.val) >= 2
    /\ sf.val[2].t = sf.val[1].t + Hour

\* C7: a track of fewer than 3 points makes simple_forecast fail with the
\* dedicated forecast-input error, before any forecast step.
C7_ShortTrackInputError ==
    (SfDone /\ Len(sf.track) < 3)
        => sf.kind = "raised" /\ sf.err = "ForecastInputError" /\ sf.k = 0

\* C8: with two consecutive points of equal timestamp, no division by the
\* zero time delta takes place, that sample stays out of the averages
\* (which are then finite) and the forecast does not fail on them.
C8_ZeroDeltaExcluded ==
    (SfDone /\ Len(sf.track) >= 3 /\ SfZeroDelta)
        => /\ ~sf.divzero
           /\ sf.err # "ValueError"
           /\ sf.kind = "returned" => sf.d.k = "fin" /\ sf.w.k = "fin"

\* C9: with full_forecast=False the value returned is the position after
\* all floor(lead_time / 15 min) steps, stamped with the last observation
\* time plus that many steps of 15 minutes.
C9_FinalSteppedPosition ==
    (SfDone /\ ~sf.full /\ sf.kind = "returned"
            /\ Len(sf.track) >= 3 /\ SfIncreasing)
        => /\ sf.val[1].t = SfLast.t +
                 TruncDiv(sf.target - SfLast.t, StepMinutes) * StepMinutes
           /\ sf.val[1].lat = sf.pos

\* The track is degenerate: every point is at the position of the last.
SfDegenerate ==
    \A j \in 1..Len(sf.track) :
        sf.track[j].lat = SfLast.lat /\ sf.track[j].lon = SfLast.lon

\* C22: for a track of at least 3 points with strictly increasing
\* timestamps and identical positions, and a target not before the last
\* observation, simple_forecast finds average speed 0 and average angular
\* velocity 0 and returns, without error, samples that are all at the last
\* observed position.
C22_DegenerateTrackRepeats ==
    (SfDone /\ Len(sf.track) >= 3 /\ SfIncreasing /\ SfDegenerate
            /\ sf.target >= SfLast.t)
        => /\ sf.kind = "returned"
           /\ sf.d = Fin(0) /\ sf.w = Fin(0)
           /\ \A j \in 1..Len(sf.val) :
                sf.val[j].lat = Fin(SfLast.lat) /\ sf.val[j].lon = SfLast.lon

\* C28: for a track of at least 3 points with strictly increasing
\* timestamps and a target at or after the last observation, lead times
\* under one hour included, simple_forecast with full_forecast=False
\* returns one (time, latitude, longitude) sample and does not fail.
C28_SingleSampleReturned ==
    (SfDone /\ ~sf.full /\ Len(sf.track) >= 3 /\ SfIncreasing
            /\ sf.target >= SfLast.t)
        => sf.kind = "returned" /\ Len(sf.val) = 1

(***************************************************************************)
(* Claims about parse_data.                                                *)
(***************************************************************************)
PdReturned == pd.pc = "done" /\ pd.kind = "returned"

\* The lines the loop decodes: after the first, with the columns needed.
PdParsed == { j \in 2..Len(pd.lines) : pd.lines[j].kind = "ok" }

PdTime(j) == DecodeTime(pd.lines[j], pd.date_format)

\* Positions of the returned track holding the point of line j.
PdPointsOf(j) ==
    { x \in 1..Len(pd.val) : pd.val[x].lat = j /\ pd.val[x].t = PdTime(j) }

\* The parsed line before line j, if any.
PdBefore(j) == { k \in PdParsed : k < j /\ \A m \in PdParsed : m < j => m <= k }

C11_TrackStrictlyIncreasing ==
    PdReturned =>
        \A x \in 1..(Len(pd.val) - 1) : pd.val[x].t < pd.val[x + 1].t

\* C12: parse_data never raises: whatever the payload, the empty one
\* included, the call ends by returning a track, and every parsed line
\* whose columns decode is still represented in it.
C12_NeverRaises ==
    pd.pc = "done" =>
        /\ pd.kind = "returned"
        /\ \A j \in PdParsed :
             \E x \in 1..Len(pd.val) : pd.val[x].t = PdTime(j)

(***************************************************************************)
(* Claims about fetch_by_buoyid and the fetch_data_* functions.            *)
(***************************************************************************)
\* The buoy asked for is fetched by fetch_data_http.
FbViaHttp ==
    /\ fb.buoy_id \in DOMAIN BuoyCatalog
    /\ FbBuoy.type \in DOMAIN FormatCatalog
    /\ FbBuoy.type # "PacificGyre"
    /\ FbBuoy.scheme # "ftp"

C14_ConnectionClosed ==
    fb.pc \in {"parse", "parsing", "done"} => ~fb.ftp_open

C16_LookupMissEmpty ==
    (/\ fb.pc = "done"
     /\ \/ fb.buoy_id \notin DOMAIN BuoyCatalog
        \/ FbBuoy.type \notin DOMAIN FormatCatalog)
        => fb.kind = "returned" /\ fb.val = <<>> /\ fb.requests = <<>>

\* A request, a connection or a transfer of this call has failed.
FbNetworkFailure ==
    \/ fb.head \in {"status_len", "status_nolen", "unreachable"}
    \/ fb.get \in {"status", "unreachable", "login", "transfer"}

TransportErrors == {"ConnectionError", "OSError", "ftplib.Error"}

\* C18: a network failure during the fetch, a failure status of the HEAD
\* or of the GET response included, ends fetch_by_buoyid with a transport
\* error, and the body of a failed response is never given to parse_data.
C18_FailureReported ==
    /\ (fb.pc = "done" /\ FbNetworkFailure)
          => fb.kind = "raised" /\ fb.err \in TransportErrors
    /\ fb.get = "status" => pd.pc = "off"

(***************************************************************************)
(* Claims about geo_tools.                                                 *)
(***************************************************************************)
\* C17: for all bearings b1 and b2, bearing_diff(b1, b2) is in (-180, 180]:
\* it is never -180, and two exactly opposite bearings give +180.
C17_HalfOpenRange ==
    gt.pc = "done" =>
        /\ -180 < gt.r /\ gt.r <= 180
        /\ (gt.b1 - gt.b2) % 360 = 180 => gt.r = 180

(***************************************************************************)
(* Claims about rk4.                                                       *)
(***************************************************************************)
\* C19: for a lead time of H whole hours the integration takes 2*H steps
\* of half an hour, none beyond the lead time, and the last sample of the
\* returned trajectory is stamped buoy_time + H hours.
C19_StopsAtLeadTime ==
    (rk.pc = "done" /\ rk.kind = "returned" /\ rk.final_step >= 1) =>
        /\ rk.steps = 2 * rk.final_step
        /\ Len(rk.val) > 0
        /\ rk.val[Len(rk.val)].t = rk.buoy_time + rk.final_step * Hour

\* C23: in every rk4 step, at each of the stages 2, 3 and 4 the u and the
\* v interpolant are sampled at one and the same point, which is the
\* position before the step moved in x by the step fraction times the
\* previous stage's u value and in y by the step fraction times the
\* previous stage's v value.
C23_StagesSampleOnePoint ==
    rk.steps > 0 =>
        \A stage \in 1..3 :
            LET den == IF stage = 3 THEN 1 ELSE 2
                point == [x |-> rk.from.x + StepOf(rk.u) \div den,
                          y |-> rk.from.y + StepOf(rk.v) \div den]
            IN  rk.samples[stage][1] = point /\ rk.samples[stage][2] = point

(***************************************************************************)
(* Claims about local_grid_bounds_check.                                   *)
(***************************************************************************)

\* The indices a slice lo:hi selects, for 0 <= lo and 0 <= hi.
SliceCells(lo, hi) == lo..(hi - 1)

\* C24: for every grid shape, every centre index inside the grid and every
\* lgs >= 0, the bounds (a, b, i, j) that local_grid_bounds_check returns
\* are within the array bounds, the window a:b, i:j contains the centre
\* (a <= idx[0] < b and i <= idx[1] < j), and the window is the
\* neighbourhood idx +/- lgs less only the cells outside the grid.
C24_WindowClippedToGrid ==
    lg.pc = "done" =>
        LET xmax == lg.big_grid[1]
            ymax == lg.big_grid[2]
            a == lg.val[1]
            b == lg.val[2]
            i == lg.val[3]
            j == lg.val[4]
        IN  /\ 0 <= a /\ a <= b /\ b <= xmax
            /\ 0 <= i /\ i <= j /\ j <= ymax
            /\ a <= lg.idx[1] /\ lg.idx[1] < b
            /\ i <= lg.idx[2] /\ lg.idx[2] < j
            /\ SliceCells(a, b) =
                 ((lg.idx[1] - lg.lgs)..(lg.idx[1] + lg.lgs)) \cap (0..(xmax - 1))
            /\ SliceCells(i, j) =
                 ((lg.idx[2] - lg.lgs)..(lg.idx[2] + lg.lgs)) \cap (0..(ymax - 1))

(***************************************************************************)
(* Claims about update_record.                                             *)
(***************************************************************************)

ApRunning == ap.pc \in {"update_bouy", "select", "done"}

\* A call that has gone through the loop over the active buoys and found
\* the primary buoy's latest observation more than 5 hours old, every
\* active buoy having an observation and none a more recent one.
ApStaleUnbeaten ==
    /\ ap.pc = "done"
    /\ ap.call.todo = <<>>
    /\ Len(ap.call.fetched) = Len(ActiveBuoys)
    /\ LatestRows(ap.rows, ap.call.pre.primary) # {}
    /\ \A d \in LatestRows(ap.rows, ap.call.pre.primary) :
         /\ ap.call.current_time - d > StaleAge
         /\ \A b \in ActiveIds :
              /\ LatestRows(ap.rows, b) # {}
              /\ \A e \in LatestRows(ap.rows, b) : e <= d

\* C29: after any sequence of update_record calls the value_txt of the
\* primary_buoy row is the id of a buoy of the active list; when the
\* primary buoy has not reported for more than 5 hours and no other active
\* buoy has a more recent observation, the call leaves the primary buoy id
\* as it was.
C29_PrimaryIsActiveBuoy ==
    /\ ApRunning => ap.primary \in ActiveIds
    /\ ApStaleUnbeaten => ap.primary = ap.call.pre.primary

ApWithinThrottle ==
    /\ ApRunning
    /\ ap.call.current_time - ap.call.pre.last_update < ap.call.throttle

\* C30: update_record called less than the throttle interval after the
\* stored last_update fetches no buoy data, adds no buoy point and leaves
\* the primary buoy and last_update as they were; a call made later than
\* that which returns has set last_update to the current time it was given.
C30_ThrottleFrame ==
    /\ ApWithinThrottle
        => /\ ap.call.fetched = <<>>
           /\ ap.rows = ap.call.pre.rows
           /\ ap.primary = ap.call.pre.primary
           /\ ap.last_update = ap.call.pre.last_update
    /\ (ApRunning /\ ~ApWithinThrottle
          /\ ap.pc = "done" /\ ap.call.kind = "returned")
        => ap.last_update = ap.call.current_time

C30_Witness ==
    /\ ApWithinThrottle
    /\ ap.pc = "done"
    /\ ap.call.kind = "returned"
    /\ ap.call.pre.last_update # DefaultDate
    /\ ap.last_update = ap.call.pre.last_update
====
